---- MODULE Spec2Model ----
(***************************************************************************)
(* A model of CrossStitchPDFParser (server/src/utils/pdf_parser.py).       *)
(*                                                                         *)
(* Numbers.  The parser works on floating point page coordinates.  The     *)
(* model is fixed point: a coordinate c is the integer c * Unit, and the   *)
(* coordinates of the inputs are even, so that the means (a + b) / 2 the   *)
(* code takes are exact.  With Unit a power of two every modelled          *)
(* coordinate, mean and gap is exactly representable in binary floating    *)
(* point, so Python's round(x, 1) is round-half-even on the exact value.   *)
(* A cell size is the exact fraction n / d of a Unit.                      *)
(*                                                                         *)
(* Text.  A string is a sequence of one-character strings.  None is the    *)
(* one-element sequence NoneStr, which no string of characters equals.     *)
(***************************************************************************)
EXTENDS Integers, Sequences, FiniteSets, TLC

VARIABLES
    pc,            \* position of the run being modelled
    color_value,   \* argument of parse_color
    hex_color,     \* result of parse_color, argument of hex_to_rgb
    rgb,           \* result of hex_to_rgb
    drawings,      \* page.get_drawings() of the page being parsed
    text_dict,     \* page.get_text("dict")["blocks"] of the page being parsed
    grid,          \* result of detect_grid
    first_grid,    \* result of the previous detect_grid on the same lines
    page_data,     \* the dict parse_page builds
    doc,           \* the pages of the opened document
    result,        \* the dict parse builds
    all_colors,    \* parse: all_colors
    all_symbols    \* parse: all_symbols

vars == <<pc, color_value, hex_color, rgb, drawings, text_dict, grid,
          first_grid, page_data, doc, result, all_colors, all_symbols>>

(***************************************************************************)
(* Bounds of the model.                                                    *)
(***************************************************************************)
MaxLines == 5       \* longest list of freely placed lines of one orientation
MaxExtra == 1       \* extra lines added to a fixed grid
MaxDrawings == 2    \* content drawings on a page besides the grid lines
MaxBlocks == 2      \* text blocks on a page
MaxPages == 2       \* pages of a document

Unit == 2 * 2 * 2   \* fixed point: 1.0 is Unit

(***************************************************************************)
(* Helpers on sequences and integers.                                      *)
(***************************************************************************)
Abs(a) == IF a < 0 THEN -a ELSE a
Min(a, b) == IF a <= b THEN a ELSE b
Max(a, b) == IF a >= b THEN a ELSE b

\* Python int(a / b) for b > 0: the quotient truncated towards zero.
TruncDiv(a, b) == IF a >= 0 THEN a \div b ELSE -((-a) \div b)

Range(s) == {s[i] : i \in 1..Len(s)}

RECURSIVE Concat(_)
Concat(ss) == IF ss = <<>> THEN <<>> ELSE Head(ss) \o Concat(Tail(ss))

SeqsUpTo(S, n) == UNION {[1..k -> S] : k \in 0..n}

(***************************************************************************)
(* Colours: parse_color and hex_to_rgb.                                    *)
(***************************************************************************)
NoneStr == <<"None">>
NoRgb == [unset |-> TRUE]
ZeroRgb == [r |-> 0, g |-> 0, b |-> 0]

HexDigits == <<"0", "1", "2", "3", "4", "5", "6", "7",
               "8", "9", "a", "b", "c", "d", "e", "f">>
UpperDigits == <<"0", "1", "2", "3", "4", "5", "6", "7",
                 "8", "9", "A", "B", "C", "D", "E", "F">>

IsHexDigit(c) == c \in Range(HexDigits) \cup Range(UpperDigits)
HexDigitValue(c) ==
    IF c \in Range(HexDigits)
    THEN (CHOOSE i \in 1..16 : HexDigits[i] = c) - 1
    ELSE (CHOOSE i \in 1..16 : UpperDigits[i] = c) - 1

\* The digits of v >= 0 in base 16, lowercase, most significant first.
RECURSIVE HexOf(_)
HexOf(v) == IF v < 16 THEN <<HexDigits[v + 1]>>
            ELSE Append(HexOf(v \div 16), HexDigits[(v % 16) + 1])

RECURSIVE ZeroPad(_, _)
ZeroPad(s, width) == IF Len(s) >= width THEN s ELSE ZeroPad(<<"0">> \o s, width)

\* format(v, "0{width}x"): the sign counts towards the width.
FormatHexNoPad(v, width) ==
    IF v >= 0 THEN HexOf(v) ELSE <<"-">> \o HexOf(-v)
FormatHex(v, width) ==
    IF v >= 0 THEN ZeroPad(HexOf(v), width)
    ELSE <<"-">> \o ZeroPad(HexOf(-v), width - 1)

\* int(c * 255) for the channel c = k / Unit.
ChannelByte(k) == TruncDiv(k * 255, Unit)

parse_color(cv) ==
    IF cv.kind = "none" THEN NoneStr
    ELSE IF cv.kind = "int" THEN <<"#">> \o FormatHex(cv.v, 6)
    ELSE IF cv.kind = "triple"
         THEN <<"#">> \o FormatHex(ChannelByte(cv.r), 2)
                     \o FormatHex(ChannelByte(cv.g), 2)
                     \o FormatHex(ChannelByte(cv.b), 2)
    ELSE IF cv.kind = "str" THEN cv.s
    ELSE NoneStr

\* s[a:b] of Python, 0-based, clipped to the string.
Slice(s, a, b) == SubSeq(s, a + 1, Min(b, Len(s)))

RECURSIVE LStrip(_, _)
LStrip(s, chars) ==
    IF s # <<>> /\ Head(s) \in chars THEN LStrip(Tail(s), chars) ELSE s

RECURSIVE RStrip(_, _)
RStrip(s, chars) ==
    IF s # <<>> /\ s[Len(s)] \in chars
    THEN RStrip(SubSeq(s, 1, Len(s) - 1), chars) ELSE s

Whitespace == {" "}
Strip(s) == RStrip(LStrip(s, Whitespace), Whitespace)

\* int(s, 16) for a slice of at most two characters: surrounding whitespace
\* is stripped, one sign is accepted, the rest must be hex digits.
\* The result is [ok |-> FALSE] where Python raises ValueError.
ParseInt16(s) ==
    LET t == Strip(s)
        signed == t # <<>> /\ Head(t) \in {"+", "-"}
        body == IF signed THEN Tail(t) ELSE t
        mag == IF Len(body) = 1 THEN HexDigitValue(body[1])
               ELSE 16 * HexDigitValue(body[1]) + HexDigitValue(body[2])
    IN  IF body = <<>> \/ Len(body) > 2 \/ \E i \in 1..Len(body) : ~IsHexDigit(body[i])
        THEN [ok |-> FALSE, val |-> 0]
        ELSE [ok |-> TRUE,
              val |-> IF signed /\ Head(t) = "-" THEN -mag ELSE mag]

hex_to_rgb(h) ==
    IF h = NoneStr \/ h = <<>> \/ Head(h) # "#" THEN ZeroRgb
    ELSE LET body == LStrip(h, {"#"})
             r == ParseInt16(Slice(body, 0, 2))
             g == ParseInt16(Slice(body, 2, 4))
             b == ParseInt16(Slice(body, 4, 6))
         IN  IF r.ok /\ g.ok /\ b.ok
             THEN [r |-> r.val, g |-> g.val, b |-> b.val]
             ELSE ZeroRgb

(***************************************************************************)
(* Grid detection: detect_grid, analyze_grid_lines, find_common_spacing.   *)
(* A point is [x, y]; an item is a line [tag |-> "l", p1, p2], a rectangle *)
(* [tag |-> "re", rect] or a curve [tag |-> "c"]; a drawing is             *)
(* [fill, items].                                                          *)
(***************************************************************************)
grid_tolerance == 1
min_grid_lines == 5
min_length == 50

Pt(x, y) == [x |-> x, y |-> y]
Line(x1, y1, x2, y2) == [tag |-> "l", p1 |-> Pt(x1, y1), p2 |-> Pt(x2, y2)]
Rect(x0, y0, x1, y1) ==
    [tag |-> "re", rect |-> [x0 |-> x0, y0 |-> y0, x1 |-> x1, y1 |-> y1]]
Curve == [tag |-> "c"]

\* for drawing in drawings: for item in drawing.get("items", [])
AllItems(ds) == Concat([i \in 1..Len(ds) |-> ds[i].items])

IsHorizontal(item) ==
    item.tag = "l" /\ Abs(item.p1.y - item.p2.y) < grid_tolerance * Unit
IsVerticalElse(item) ==
    /\ item.tag = "l"
    /\ ~IsHorizontal(item)
IsVertical(item) ==
    /\ item.tag = "l"
    /\ ~IsHorizontal(item)
    /\ Abs(item.p1.x - item.p2.x) < grid_tolerance * Unit

HorizontalLine(item) ==
    [y |-> (item.p1.y + item.p2.y) \div 2,
     x1 |-> Min(item.p1.x, item.p2.x),
     x2 |-> Max(item.p1.x, item.p2.x),
     length |-> Abs(item.p2.x - item.p1.x)]
VerticalLine(item) ==
    [x |-> (item.p1.x + item.p2.x) \div 2,
     y1 |-> Min(item.p1.y, item.p2.y),
     y2 |-> Max(item.p1.y, item.p2.y),
     length |-> Abs(item.p2.y - item.p1.y)]

RECURSIVE SelectSeqBy(_, _)
SelectSeqBy(s, keep) ==
    IF s = <<>> THEN <<>>
    ELSE IF keep[1] THEN <<Head(s)>> \o SelectSeqBy(Tail(s), Tail(keep))
    ELSE SelectSeqBy(Tail(s), Tail(keep))

\* horizontal_lines and vertical_lines before the length filter
ClassifyHorizontal(items) ==
    LET hs == SelectSeqBy(items, [i \in 1..Len(items) |-> IsHorizontal(items[i])])
    IN  [i \in 1..Len(hs) |-> HorizontalLine(hs[i])]
ClassifyVertical(items) ==
    LET vs == SelectSeqBy(items, [i \in 1..Len(items) |-> IsVertical(items[i])])
    IN  [i \in 1..Len(vs) |-> VerticalLine(vs[i])]

\* [l for l in lines if l["length"] > min_length]
FilterLong(lines) ==
    SelectSeqBy(lines, [i \in 1..Len(lines) |-> lines[i].length > min_length * Unit])

\* list.sort(key=...): stable, ascending.
RECURSIVE InsertSorted(_, _, _)
InsertSorted(sorted, l, key) ==
    IF sorted = <<>> THEN <<l>>
    ELSE IF sorted[Len(sorted)][key] <= l[key] THEN Append(sorted, l)
    ELSE Append(InsertSorted(SubSeq(sorted, 1, Len(sorted) - 1), l, key),
                sorted[Len(sorted)])

RECURSIVE SortLinesFrom(_, _, _)
SortLinesFrom(sorted, lines, key) ==
    IF lines = <<>> THEN sorted
    ELSE SortLinesFrom(InsertSorted(sorted, Head(lines), key), Tail(lines), key)

SortLinesUnsorted(lines, key) == lines
SortLines(lines, key) == SortLinesFrom(<<>>, lines, key)

\* [lines[i+1][key] - lines[i][key] for i in range(len(lines)-1)]
Spacings(lines, key) ==
    [i \in 1..(Len(lines) - 1) |-> lines[i + 1][key] - lines[i][key]]

\* round(spacing, 1), in tenths: the nearest tenth, a tie going to the even one.
Round1(k) ==
    LET num == 10 * k
        q == num \div Unit
        r == num - q * Unit
    IN  IF 2 * r < Unit THEN q
        ELSE IF 2 * r > Unit THEN q + 1
        ELSE IF q % 2 = 0 THEN q ELSE q + 1

\* The keys of spacing_counts in insertion order.
RECURSIVE Buckets(_, _)
Buckets(seen, rounded) ==
    IF rounded = <<>> THEN seen
    ELSE IF Head(rounded) \in Range(seen) THEN Buckets(seen, Tail(rounded))
    ELSE Buckets(Append(seen, Head(rounded)), Tail(rounded))

Count(rounded, v) == Cardinality({i \in 1..Len(rounded) : rounded[i] = v})

find_common_spacing_largest(spacings) ==
    IF spacings = <<>> THEN 0
    ELSE LET rounded == [i \in 1..Len(spacings) |-> Round1(spacings[i])]
         IN  CHOOSE v \in Range(rounded) : \A u \in Range(rounded) : u <= v
\* find_common_spacing, in tenths: max() returns the first key, in insertion
\* order, whose count is the largest.
find_common_spacing(spacings) ==
    IF spacings = <<>> THEN 0
    ELSE LET rounded == [i \in 1..Len(spacings) |-> Round1(spacings[i])]
             keys == Buckets(<<>>, rounded)
             best == CHOOSE i \in 1..Len(keys) :
                        /\ \A j \in 1..Len(keys) :
                              Count(rounded, keys[j]) <= Count(rounded, keys[i])
                        /\ \A j \in 1..(i - 1) :
                              Count(rounded, keys[j]) < Count(rounded, keys[i])
         IN  keys[best]

RECURSIVE GCD(_, _)
GCD(a, b) == IF b = 0 THEN a ELSE GCD(b, a % b)

\* A cell size is the fraction n / d of a Unit, in lowest terms.
Frac(n, d) ==
    LET g == GCD(Abs(n), d)
    IN  IF n = 0 THEN [n |-> 0, d |-> 1] ELSE [n |-> n \div g, d |-> d \div g]
FromTenths(t) == Frac(t * Unit, 10)

RowsOffByOne(lines) == Len(lines)
Rows(lines) == Len(lines) - 1

CellSizeOfEstimate(sorted, key) ==
    LET spacings == Spacings(sorted, key)
        common == IF spacings # <<>> THEN find_common_spacing(spacings) ELSE 0
    IN  FromTenths(common)
\* The cell size of one orientation: the common spacing, or when that is 0
\* the span divided by the number of cells.
CellSize(sorted, key) ==
    LET spacings == Spacings(sorted, key)
        common == IF spacings # <<>> THEN find_common_spacing(spacings) ELSE 0
        cells == Rows(sorted)
    IN  IF common = 0 /\ cells > 0
        THEN Frac(sorted[Len(sorted)][key] - sorted[1][key], cells)
        ELSE FromTenths(common)

analyze_grid_lines(h_lines, v_lines) ==
    LET hs == SortLines(h_lines, "y")
        vs == SortLines(v_lines, "x")
        rows == Rows(hs)
        cols == Rows(vs)
    IN  [detected |-> TRUE,
         rows |-> rows,
         columns |-> cols,
         cell_width |-> CellSize(vs, "x"),
         cell_height |-> CellSize(hs, "y"),
         bounds |-> [top |-> hs[1].y, bottom |-> hs[Len(hs)].y,
                     left |-> vs[1].x, right |-> vs[Len(vs)].x],
         total_cells |-> rows * cols]

NoGrid == [detected |-> FALSE]

EnoughLinesStrict(lines) == Len(lines) > min_grid_lines
EnoughLines(lines) == Len(lines) >= min_grid_lines

detect_grid(ds) ==
    LET items == AllItems(ds)
        horizontal_lines == FilterLong(ClassifyHorizontal(items))
        vertical_lines == FilterLong(ClassifyVertical(items))
    IN  IF EnoughLines(horizontal_lines) /\ EnoughLines(vertical_lines)
        THEN analyze_grid_lines(horizontal_lines, vertical_lines)
        ELSE NoGrid

(***************************************************************************)
(* Extraction on one page: extract_stitches, extract_colors,               *)
(* extract_symbols, extract_legend, parse_page.                            *)
(* text_dict is the sequence of blocks; a text block is                    *)
(* [type |-> 0, lines], a line a sequence of spans [text, bbox]; an image  *)
(* block is [type |-> 1].                                                  *)
(***************************************************************************)
\* int((coord - origin) / cell) for the cell size cell.n / cell.d
CellIndex(coord, origin, cell) == TruncDiv((coord - origin) * cell.d, cell.n)

InRangeInclusive(grid_x, grid_y, g) ==
    0 <= grid_x /\ grid_x <= g.columns /\ 0 <= grid_y /\ grid_y <= g.rows
InRange(grid_x, grid_y, g) ==
    0 <= grid_x /\ grid_x < g.columns /\ 0 <= grid_y /\ grid_y < g.rows

\* The stitches one item of a drawing contributes: none or one.
StitchAt(x, y, type, color, g) ==
    LET grid_x == CellIndex(x, g.bounds.left, g.cell_width)
        grid_y == CellIndex(y, g.bounds.top, g.cell_height)
    IN  IF InRange(grid_x, grid_y, g)
        THEN <<[row |-> grid_y, col |-> grid_x, type |-> type, color |-> color]>>
        ELSE <<>>

ItemStitchesAtP2(item, color, g) ==
    IF item.tag = "l"
    THEN StitchAt(item.p2.x, item.p2.y, "cross", color, g)
    ELSE IF item.tag = "re"
    THEN StitchAt((item.rect.x0 + item.rect.x1) \div 2,
                  (item.rect.y0 + item.rect.y1) \div 2, "full", color, g)
    ELSE <<>>
ItemStitches(item, color, g) ==
    IF item.tag = "l"
    THEN StitchAt(item.p1.x, item.p1.y, "cross", color, g)
    ELSE IF item.tag = "re"
    THEN StitchAt((item.rect.x0 + item.rect.x1) \div 2,
                  (item.rect.y0 + item.rect.y1) \div 2, "full", color, g)
    ELSE <<>>

\* drawing.get("fill"): None when the drawing has no fill key
FillOf(drawing) ==
    IF drawing.fill.kind = "absent" THEN [kind |-> "none"] ELSE drawing.fill

DrawingStitchesColored(drawing, g) ==
    LET color == parse_color(FillOf(drawing))
    IN  IF color = NoneStr THEN <<>>
        ELSE Concat([i \in 1..Len(drawing.items) |->
                        ItemStitches(drawing.items[i], color, g)])
DrawingStitches(drawing, g) ==
    LET color == parse_color(FillOf(drawing))
    IN  Concat([i \in 1..Len(drawing.items) |->
                   ItemStitches(drawing.items[i], color, g)])

\* What a division by a cell size of zero would make of the call.
ZeroDivisionError == <<[raised |-> "ZeroDivisionError"]>>

extract_stitches_unguarded(ds, g) ==
    IF ~g.detected THEN <<>>
    ELSE IF g.cell_width.n = 0 \/ g.cell_height.n = 0 THEN ZeroDivisionError
    ELSE Concat([i \in 1..Len(ds) |-> DrawingStitches(ds[i], g)])
extract_stitches(ds, g) ==
    IF ~g.detected THEN <<>>
    ELSE IF g.cell_width.n = 0 \/ g.cell_height.n = 0 THEN <<>>
    ELSE Concat([i \in 1..Len(ds) |-> DrawingStitches(ds[i], g)])

\* extract_colors: the colours of the fills, first occurrences only
RECURSIVE ColorsFrom(_, _)
ColorsFrom(colors, ds) ==
    IF ds = <<>> THEN colors
    ELSE LET color == parse_color(FillOf(Head(ds)))
             seen == {colors[i].hex : i \in 1..Len(colors)}
         IN  IF Head(ds).fill.kind # "absent" /\ color # NoneStr
                /\ color # <<>> /\ color \notin seen
             THEN ColorsFrom(Append(colors, [hex |-> color,
                                             rgb |-> hex_to_rgb(color)]),
                             Tail(ds))
             ELSE ColorsFrom(colors, Tail(ds))

extract_colors(ds) == ColorsFrom(<<>>, ds)

\* The spans of the text blocks, in reading order.
BlockSpans(block) == IF block.type = 0 THEN Concat(block.lines) ELSE <<>>
AllSpans(blocks) == Concat([i \in 1..Len(blocks) |-> BlockSpans(blocks[i])])

SpanSymbol(span, g) ==
    LET text == Strip(span.text)
    IN  IF Len(text) = 1 /\ span.bbox # <<>> /\ g.detected
           /\ g.cell_width.n > 0 /\ g.cell_height.n > 0
        THEN LET center_x == (span.bbox[1] + span.bbox[3]) \div 2
                 center_y == (span.bbox[2] + span.bbox[4]) \div 2
             IN  <<[symbol |-> text,
                    row |-> CellIndex(center_y, g.bounds.top, g.cell_height),
                    col |-> CellIndex(center_x, g.bounds.left, g.cell_width),
                    bbox |-> span.bbox]>>
        ELSE <<>>

extract_symbols(blocks, g) ==
    LET spans == AllSpans(blocks)
    IN  Concat([i \in 1..Len(spans) |-> SpanSymbol(spans[i], g)])

Lowercase == <<"a", "b", "c", "d", "e", "f", "g", "h", "i", "j", "k", "l", "m",
               "n", "o", "p", "q", "r", "s", "t", "u", "v", "w", "x", "y", "z">>
Uppercase == <<"A", "B", "C", "D", "E", "F", "G", "H", "I", "J", "K", "L", "M",
               "N", "O", "P", "Q", "R", "S", "T", "U", "V", "W", "X", "Y", "Z">>

Upper(s) == [i \in 1..Len(s) |->
                IF s[i] \in Range(Lowercase)
                THEN Uppercase[CHOOSE j \in 1..26 : Lowercase[j] = s[i]]
                ELSE s[i]]
Lower(s) == [i \in 1..Len(s) |->
                IF s[i] \in Range(Uppercase)
                THEN Lowercase[CHOOSE j \in 1..26 : Uppercase[j] = s[i]]
                ELSE s[i]]

\* keyword in text
Contains(text, keyword) ==
    \E i \in 0..(Len(text) - Len(keyword)) :
        SubSeq(text, i + 1, i + Len(keyword)) = keyword

\* The two characters of the Chinese word for colour are the one-character
\* strings "U+989C" and "U+8272".
ThreadKeywords == {<<"D", "M", "C">>, <<"A", "N", "C", "H", "O", "R">>,
                   <<"M", "A", "D", "E", "I", "R", "A">>}
ColorKeywords == {<<"c", "o", "l", "o", "r">>, <<"c", "o", "l", "o", "u", "r">>,
                  <<"U+989C", "U+8272">>}

BlockLegendColorFirst(block) ==
    IF block.type # 0 THEN <<>>
    ELSE LET spans == Concat(block.lines)
             block_text == Concat([i \in 1..Len(spans) |-> spans[i].text])
         IN  IF \E k \in ColorKeywords : Contains(Lower(block_text), k)
             THEN <<[type |-> "color_info", text |-> Strip(block_text)]>>
             ELSE IF \E k \in ThreadKeywords : Contains(Upper(block_text), k)
             THEN <<[type |-> "thread_info", text |-> Strip(block_text)]>>
             ELSE <<>>
BlockLegend(block) ==
    IF block.type # 0 THEN <<>>
    ELSE LET spans == Concat(block.lines)
             block_text == Concat([i \in 1..Len(spans) |-> spans[i].text])
         IN  IF \E k \in ThreadKeywords : Contains(Upper(block_text), k)
             THEN <<[type |-> "thread_info", text |-> Strip(block_text)]>>
             ELSE IF \E k \in ColorKeywords : Contains(Lower(block_text), k)
             THEN <<[type |-> "color_info", text |-> Strip(block_text)]>>
             ELSE <<>>

extract_legend(blocks) ==
    Concat([i \in 1..Len(blocks) |-> BlockLegend(blocks[i])])

parse_page_from_zero(page, page_num) ==
    LET g == detect_grid(page.drawings)
    IN  [page_number |-> page_num,
         grid |-> g,
         stitches |-> IF g.detected THEN extract_stitches(page.drawings, g)
                      ELSE <<>>,
         colors |-> extract_colors(page.drawings),
         symbols |-> extract_symbols(page.text_dict, g),
         legend |-> extract_legend(page.text_dict)]
\* parse_page: page is [drawings, text_dict]; the page's width and height
\* are copied through and left out.
parse_page(page, page_num) ==
    LET g == detect_grid(page.drawings)
    IN  [page_number |-> page_num + 1,
         grid |-> g,
         stitches |-> IF g.detected THEN extract_stitches(page.drawings, g)
                      ELSE <<>>,
         colors |-> extract_colors(page.drawings),
         symbols |-> extract_symbols(page.text_dict, g),
         legend |-> extract_legend(page.text_dict)]

(***************************************************************************)
(* The document: parse, organize_color_palette, organize_symbols.          *)
(***************************************************************************)
CollectColorsLastPage(colors, pd) ==
    {pd.colors[i].hex : i \in 1..Len(pd.colors)}
\* for color in page_data["colors"]: all_colors.add(color["hex"])
CollectColors(colors, pd) ==
    colors \cup {pd.colors[i].hex : i \in 1..Len(pd.colors)}

\* The orders in which iterating the set of colours can deliver them.
Enumerations(S) ==
    {f \in [1..Cardinality(S) -> S] : \A i, j \in DOMAIN f : f[i] = f[j] => i = j}

\* organize_color_palette, for the colours as the set delivers them
organize_color_palette_from_zero(colors) ==
    [i \in 1..Len(colors) |->
        [id |-> i - 1, hex |-> colors[i], rgb |-> hex_to_rgb(colors[i])]]
organize_color_palette(colors) ==
    [i \in 1..Len(colors) |->
        [id |-> i, hex |-> colors[i], rgb |-> hex_to_rgb(colors[i])]]

\* The keys of unique_symbols in insertion order.
RECURSIVE SymbolKeys(_, _)
SymbolKeys(seen, symbols) ==
    IF symbols = <<>> THEN seen
    ELSE IF Head(symbols).symbol \in Range(seen)
         THEN SymbolKeys(seen, Tail(symbols))
         ELSE SymbolKeys(Append(seen, Head(symbols).symbol), Tail(symbols))

PositionsOfFirst(symbol, symbols) ==
    LET own == SelectSeqBy(symbols,
                           [i \in 1..Len(symbols) |->
                               /\ symbols[i].symbol = symbol
                               /\ \A j \in 1..(i - 1) : symbols[j] # symbols[i]])
    IN  [i \in 1..Len(own) |-> [row |-> own[i].row, col |-> own[i].col]]
PositionsOf(symbol, symbols) ==
    LET own == SelectSeqBy(symbols,
                           [i \in 1..Len(symbols) |-> symbols[i].symbol = symbol])
    IN  [i \in 1..Len(own) |-> [row |-> own[i].row, col |-> own[i].col]]

organize_symbols(symbols) ==
    LET keys == SymbolKeys(<<>>, symbols)
    IN  [i \in 1..Len(keys) |->
            [symbol |-> keys[i], positions |-> PositionsOf(keys[i], symbols)]]

(***************************************************************************)
(* Values of the variables a specification does not use.                   *)
(***************************************************************************)
NoColorValue == [kind |-> "none"]
NoPageData == [unset |-> TRUE]
NoResult == [unset |-> TRUE]

ColorIdle ==
    /\ color_value = NoColorValue /\ hex_color = NoneStr /\ rgb = NoRgb
PageIdle ==
    /\ drawings = <<>> /\ text_dict = <<>> /\ page_data = NoPageData
GridIdle ==
    /\ grid = NoGrid /\ first_grid = NoGrid
DocIdle ==
    /\ doc = <<>> /\ result = NoResult /\ all_colors = {} /\ all_symbols = <<>>

(***************************************************************************)
(* SpecColor: parse_color, then hex_to_rgb on its result, for one colour   *)
(* value drawn from ColorValues.                                           *)
(***************************************************************************)
ByteSamples == {0, 1, 17, 128, 255}
ChannelSamples == {0, 1, 4, 7, Unit}
PairSamples == {<<"0", "0">>, <<"1", "a">>, <<"A", "b">>, <<"f", "f">>, <<"F", "F">>}

PackedInt(r, g, b) == r * 65536 + g * 256 + b

IntValues ==
    {[kind |-> "int", v |-> PackedInt(r, g, b)] : r, g, b \in ByteSamples}
        \cup {[kind |-> "int", v |-> 16777216], [kind |-> "int", v |-> -1]}

TripleValues ==
    {[kind |-> "triple", r |-> r, g |-> g, b |-> b] : r, g, b \in ChannelSamples}
        \cup {[kind |-> "triple", r |-> 2 * Unit, g |-> 0, b |-> 0],
              [kind |-> "triple", r |-> -1, g |-> 0, b |-> 0]}

HexLiterals == {<<"#">> \o p \o q \o t : p, q, t \in PairSamples}

\* Strings that are not '#' and six hex digits: a literal cut short, extended,
\* with one character replaced, without its '#', with a second '#'.
EditChars == {"g", " ", "+", "-", "#", "0"}
EditBases == {<<"#", "1", "2", "3", "4", "5", "6">>,
              <<"#", "f", "f", "0", "0", "A", "b">>}
MalformedStrings ==
    UNION {
        {SubSeq(s, 1, k) : k \in 0..6}
            \cup {Append(s, c) : c \in EditChars}
            \cup {[s EXCEPT ![i] = c] : i \in 1..7, c \in EditChars \ {"0"}}
            \cup {Tail(s), <<"#">> \o s}
        : s \in EditBases}

StrValues == {[kind |-> "str", s |-> s] : s \in HexLiterals \cup MalformedStrings}

ColorValues ==
    IntValues \cup TripleValues \cup StrValues
        \cup {[kind |-> "none"], [kind |-> "other"]}

InitColor ==
    /\ pc = "color_start"
    /\ color_value \in ColorValues
    /\ hex_color = NoneStr
    /\ rgb = NoRgb
    /\ PageIdle /\ GridIdle /\ DocIdle

\* color = self.parse_color(value)
ParseColor ==
    /\ pc = "color_start"
    /\ hex_color' = parse_color(color_value)
    /\ pc' = "color_parsed"
    /\ UNCHANGED <<color_value, rgb, drawings, text_dict, grid, first_grid,
                   page_data, doc, result, all_colors, all_symbols>>

\* self.hex_to_rgb(color) on a string parse_color returned
HexToRgb ==
    /\ pc = "color_parsed"
    /\ hex_color # NoneStr
    /\ rgb' = hex_to_rgb(hex_color)
    /\ pc' = "color_done"
    /\ UNCHANGED <<color_value, hex_color, drawings, text_dict, grid,
                   first_grid, page_data, doc, result, all_colors, all_symbols>>

NextColor == ParseColor \/ HexToRgb

SpecColor == InitColor /\ [][NextColor]_vars

(***************************************************************************)
(* SpecGrid: detect_grid on the lines of a page, and again on the same     *)
(* lines after two neighbouring drawings have changed places.              *)
(*                                                                         *)
(* The lines of one orientation are placed freely (any positions of        *)
(* PosSet in any order, one drawing each); those of the other              *)
(* orientation are one path of a fixed list.  A third family takes both    *)
(* from the fixed lists and adds lines that are short, of length exactly   *)
(* min_length, slanted or diagonal.                                        *)
(***************************************************************************)
LineLength == 100 * Unit
PosSet == {0, 10 * Unit, 20 * Unit, 30 * Unit + 2}
ScenarioA == <<0, 10 * Unit, 20 * Unit, 30 * Unit, 40 * Unit, 50 * Unit>>
FixedLists == {ScenarioA, SubSeq(ScenarioA, 1, min_grid_lines - 1)}
FreeLists ==
    UNION {[1..k -> PosSet] : k \in (min_grid_lines - 1)..MaxLines}

HLine(y) == Line(0, y, LineLength, y)
VLine(x) == Line(x, 0, x, LineLength)
Stroke(item) == [fill |-> [kind |-> "none"], items |-> <<item>>]
HPath(ys) == [fill |-> [kind |-> "none"],
              items |-> [i \in 1..Len(ys) |-> HLine(ys[i])]]
VPath(xs) == [fill |-> [kind |-> "none"],
              items |-> [i \in 1..Len(xs) |-> VLine(xs[i])]]

ExtraLines ==
    {Line(0, 60 * Unit, 40 * Unit, 60 * Unit),           \* short horizontal
     Line(0, 60 * Unit, min_length * Unit, 60 * Unit),   \* length exactly 50
     Line(0, 60 * Unit, min_length * Unit + 2, 60 * Unit),
     Line(0, 60 * Unit, LineLength, 60 * Unit + 4),      \* slanted by 0.5
     Line(0, 60 * Unit, LineLength, 61 * Unit),          \* slanted by 1
     Line(60 * Unit, LineLength, 60 * Unit + 6, 0),      \* vertical, slanted
     Line(0, 0, LineLength, LineLength),                 \* diagonal
     Line(60 * Unit, 0, 60 * Unit, 0)}                   \* a point

GridInputs(ds) ==
    \/ \E ys \in FreeLists, xs \in FixedLists :
          ds = [i \in 1..Len(ys) |-> Stroke(HLine(ys[i]))] \o <<VPath(xs)>>
    \/ \E xs \in FreeLists, ys \in FixedLists :
          ds = [i \in 1..Len(xs) |-> Stroke(VLine(xs[i]))] \o <<HPath(ys)>>
    \/ \E ys \in FixedLists, xs \in FixedLists,
           es \in SeqsUpTo(ExtraLines, MaxExtra) :
          ds = <<HPath(ys), VPath(xs)>> \o [i \in 1..Len(es) |-> Stroke(es[i])]

InitGrid ==
    /\ pc = "grid_input"
    /\ GridInputs(drawings)
    /\ grid = NoGrid
    /\ first_grid = NoGrid
    /\ text_dict = <<>> /\ page_data = NoPageData
    /\ ColorIdle /\ DocIdle

\* grid = self.detect_grid(drawings, page.rect)
DetectGrid ==
    /\ pc \in {"grid_input", "grid_reordered"}
    /\ first_grid' = grid
    /\ grid' = detect_grid(drawings)
    /\ pc' = IF pc = "grid_input" THEN "grid_detected" ELSE "grid_redetected"
    /\ UNCHANGED <<color_value, hex_color, rgb, drawings, text_dict,
                   page_data, doc, result, all_colors, all_symbols>>

\* The same drawings arrive in another order.
Reorder ==
    /\ pc = "grid_detected"
    /\ \E i \in 1..(Len(drawings) - 1) :
          drawings' = [drawings EXCEPT ![i] = drawings[i + 1],
                                       ![i + 1] = drawings[i]]
    /\ pc' = "grid_reordered"
    /\ UNCHANGED <<color_value, hex_color, rgb, text_dict, grid, first_grid,
                   page_data, doc, result, all_colors, all_symbols>>

NextGrid == DetectGrid \/ Reorder

SpecGrid == InitGrid /\ [][NextGrid]_vars

(***************************************************************************)
(* Claims on grid detection.                                               *)
(***************************************************************************)
LongHorizontal(item) ==
    /\ item.tag = "l"
    /\ Abs(item.p1.y - item.p2.y) < Unit
    /\ Abs(item.p1.x - item.p2.x) > 50 * Unit
LongVertical(item) ==
    /\ item.tag = "l"
    /\ Abs(item.p1.y - item.p2.y) >= Unit
    /\ Abs(item.p1.x - item.p2.x) < Unit
    /\ Abs(item.p1.y - item.p2.y) > 50 * Unit

\* The number of lines of each orientation that survive the length filter.
NumHorizontal(ds) ==
    LET items == AllItems(ds)
    IN  Cardinality({i \in 1..Len(items) : LongHorizontal(items[i])})
NumVertical(ds) ==
    LET items == AllItems(ds)
    IN  Cardinality({i \in 1..Len(items) : LongVertical(items[i])})

\* C2: a detected grid has rows = (filtered horizontal lines) - 1 and
\* columns = (filtered vertical lines) - 1, both at least 4, and
\* total_cells = rows * columns; 6 and 6 lines give rows = columns = 5.
C2_RowsColumns ==
    grid.detected =>
        /\ grid.rows = NumHorizontal(drawings) - 1
        /\ grid.columns = NumVertical(drawings) - 1
        /\ grid.rows >= 4 /\ grid.columns >= 4
        /\ grid.total_cells = grid.rows * grid.columns
        /\ (NumHorizontal(drawings) = 6 /\ NumVertical(drawings) = 6)
              => (grid.rows = 5 /\ grid.columns = 5)

C2_Witness ==
    /\ pc = "grid_detected"
    /\ grid.detected
    /\ NumHorizontal(drawings) = 6 /\ NumVertical(drawings) = 6
    /\ grid.rows = 5 /\ grid.columns = 5 /\ grid.total_cells = 25

\* C6: detect_grid on the same lines in another order returns the same
\* bounds, rows, columns, cell_width and cell_height.
C6_OrderIndependent ==
    pc = "grid_redetected" => grid = first_grid

\* The y of the horizontal lines, in the order of the drawings.
HorizontalYs(ds) ==
    LET hs == ClassifyHorizontal(AllItems(ds))
    IN  [i \in 1..Len(hs) |-> hs[i].y]

\* Five lines out of order whose gaps 10, 0, 10, 0 tie two buckets.
C6_Witness ==
    /\ pc = "grid_redetected"
    /\ grid.detected
    /\ HorizontalYs(drawings) = <<20 * Unit, 10 * Unit, 0, 20 * Unit, 10 * Unit>>
    /\ grid = first_grid
    /\ grid.cell_height = FromTenths(100)

\* The classified lines of each orientation that are at least min_length long.
AtLeastMinHorizontal(ds) ==
    LET hs == ClassifyHorizontal(AllItems(ds))
    IN  Cardinality({i \in 1..Len(hs) : hs[i].length >= min_length * Unit})
AtLeastMinVertical(ds) ==
    LET vs == ClassifyVertical(AllItems(ds))
    IN  Cardinality({i \in 1..Len(vs) : vs[i].length >= min_length * Unit})

\* C14: the length filter removes only the lines shorter than 50: every
\* classified line of length 50 or more, a line of exactly 50 included, counts
\* towards the minimum of five lines and towards rows and columns.
C14_KeepsMinLength ==
    pc = "grid_detected" =>
        /\ grid.detected <=> (/\ AtLeastMinHorizontal(drawings) >= min_grid_lines
                              /\ AtLeastMinVertical(drawings) >= min_grid_lines)
        /\ grid.detected =>
              /\ grid.rows = AtLeastMinHorizontal(drawings) - 1
              /\ grid.columns = AtLeastMinVertical(drawings) - 1

\* The positions of the lines that survive the length filter, ascending.
RECURSIVE Ascending(_)
Ascending(ps) ==
    IF ps = <<>> THEN <<>>
    ELSE LET i == CHOOSE i \in 1..Len(ps) : \A j \in 1..Len(ps) : ps[i] <= ps[j]
         IN  <<ps[i]>> \o Ascending(SubSeq(ps, 1, i - 1) \o SubSeq(ps, i + 1, Len(ps)))
HorizontalPositions(ds) ==
    LET items == SelectSeqBy(AllItems(ds),
                             [i \in 1..Len(AllItems(ds)) |->
                                 LongHorizontal(AllItems(ds)[i])])
    IN  Ascending([i \in 1..Len(items) |-> (items[i].p1.y + items[i].p2.y) \div 2])
VerticalPositions(ds) ==
    LET items == SelectSeqBy(AllItems(ds),
                             [i \in 1..Len(AllItems(ds)) |->
                                 LongVertical(AllItems(ds)[i])])
    IN  Ascending([i \in 1..Len(items) |-> (items[i].p1.x + items[i].p2.x) \div 2])

\* The gaps between consecutive positions, and the same rounded to tenths.
Gaps(ps) == [i \in 1..(Len(ps) - 1) |-> ps[i + 1] - ps[i]]
RoundedGaps(ps) == [i \in 1..(Len(ps) - 1) |-> Round1(ps[i + 1] - ps[i])]

\* t is one of the rounded gaps and none of them occurs more often.
IsMode(t, rounded) ==
    /\ t \in Range(rounded)
    /\ \A u \in Range(rounded) : Count(rounded, u) <= Count(rounded, t)

\* The spacing-mode estimate of the positions, and what C18 says of it and
\* of the cell size made from it.
ModeEstimate(ps, cell) ==
    LET v == find_common_spacing(Gaps(ps))
    IN  /\ IsMode(v, RoundedGaps(ps))
        /\ v # 0 => cell = FromTenths(v)
        /\ (\A i \in 1..Len(Gaps(ps)) : Gaps(ps)[i] = 10 * Unit) => v = 100

FallbackCell(ps, cell) ==
    LET v == find_common_spacing(Gaps(ps))
        span == ps[Len(ps)] - ps[1]
    IN  /\ v = 0 => cell = Frac(span, Len(ps) - 1)
        /\ v # 0 => cell = FromTenths(v)
        /\ cell.n >= 0 /\ cell.d > 0
        /\ cell.n = 0 => span = 0

\* C19: where the spacing-mode estimate of an orientation is 0 the cell size
\* is (last position - first position) / (number of lines - 1), elsewhere it
\* is the estimate; cell_width and cell_height are never negative and are 0
\* only where all the lines of the orientation share one position.
C19_FallbackCellSize ==
    (pc = "grid_detected" /\ grid.detected) =>
        /\ FallbackCell(HorizontalPositions(drawings), grid.cell_height)
        /\ FallbackCell(VerticalPositions(drawings), grid.cell_width)

\* Duplicate lines make 0 the most frequent gap although the lines span a
\* distance: the cell size is that span divided by the number of cells.
C19_Witness ==
    /\ pc = "grid_detected"
    /\ grid.detected
    /\ \/ LET ps == HorizontalPositions(drawings)
          IN  /\ find_common_spacing(Gaps(ps)) = 0
              /\ ps[Len(ps)] > ps[1]
              /\ grid.cell_height = Frac(ps[Len(ps)] - ps[1], Len(ps) - 1)
       \/ LET ps == VerticalPositions(drawings)
          IN  /\ find_common_spacing(Gaps(ps)) = 0
              /\ ps[Len(ps)] > ps[1]
              /\ grid.cell_width = Frac(ps[Len(ps)] - ps[1], Len(ps) - 1)

\* A line that is neither horizontal nor vertical within the tolerance of 1.
Diagonal(item) ==
    /\ item.tag = "l"
    /\ Abs(item.p1.y - item.p2.y) >= Unit
    /\ Abs(item.p1.x - item.p2.x) >= Unit

\* The drawings without their diagonal lines.
WithoutDiagonals(ds) ==
    [i \in 1..Len(ds) |->
        [ds[i] EXCEPT !.items =
            SelectSeqBy(ds[i].items,
                        [k \in 1..Len(ds[i].items) |-> ~Diagonal(ds[i].items[k])])]]

\* C21: detect_grid puts each line into at most one of its two lists,
\* horizontal where |y1 - y2| < 1, else vertical where |x1 - x2| < 1, else
\* none; the position of a line is the mean of its two endpoint coordinates
\* and its length the absolute extent, so that rows, columns and bounds are
\* those of the means of the long lines; and the grid returned is the grid of
\* the same drawings without their diagonal lines.
C21_Classification ==
    pc = "grid_detected" =>
        LET items == AllItems(drawings)
            hs == HorizontalPositions(drawings)
            vs == VerticalPositions(drawings)
        IN  /\ \A i \in 1..Len(items) :
                  /\ ~(IsHorizontal(items[i]) /\ IsVertical(items[i]))
                  /\ Diagonal(items[i])
                        => ~IsHorizontal(items[i]) /\ ~IsVertical(items[i])
            /\ grid = detect_grid(WithoutDiagonals(drawings))
            /\ grid.detected =>
                  /\ grid.rows = Len(hs) - 1 /\ grid.columns = Len(vs) - 1
                  /\ grid.bounds = [top |-> hs[1], bottom |-> hs[Len(hs)],
                                    left |-> vs[1], right |-> vs[Len(vs)]]

\* A grid beside a diagonal line: the grid is that of the other lines.
C21_Witness ==
    /\ pc = "grid_detected"
    /\ grid.detected
    /\ \E i \in 1..Len(AllItems(drawings)) : Diagonal(AllItems(drawings)[i])
    /\ WithoutDiagonals(drawings) # drawings
    /\ grid = detect_grid(WithoutDiagonals(drawings))

(***************************************************************************)
(* SpecPage: parse_page, step by step, on one page.  The page has the      *)
(* lines of one of five grids (GridFamilies) and either content drawings   *)
(* (a stroke or a rectangle at one of ContentPoints, a curve, one more     *)
(* long line), or text blocks, or one drawing with a fill of any shape.    *)
(***************************************************************************)
GridFamilies ==
    {<<HPath(ScenarioA), VPath(ScenarioA)>>,
     <<HPath(SubSeq(ScenarioA, 1, min_grid_lines - 1)), VPath(ScenarioA)>>,
     <<HPath(ScenarioA), VPath(<<0, 0, 0, 0, 0>>)>>,
     <<HPath(<<0, 0, 0, 0, 0>>), VPath(ScenarioA)>>,
     <<HPath(ScenarioA),
       VPath(<<0, 10 * Unit + 2, 20 * Unit + 4, 30 * Unit + 6, 41 * Unit>>)>>}

PIn == Pt(35 * Unit, 25 * Unit)       \* inside cell row 2, column 3
PLeft == Pt(-5 * Unit, 25 * Unit)     \* half a cell left of the grid
PAbove == Pt(25 * Unit, -2)           \* a quarter unit above the grid
PEdge == Pt(50 * Unit, 25 * Unit)     \* on the right bound
POut == Pt(55 * Unit, 55 * Unit)      \* beside the grid
ContentPoints == {PIn, PLeft, PAbove, PEdge, POut}

StrokeAt(p) == Line(p.x, p.y, p.x + 4 * Unit, p.y + 4 * Unit)
RectAt(p) == Rect(p.x - 2 * Unit, p.y - 2 * Unit, p.x + 2 * Unit, p.y + 2 * Unit)
LongLine == Line(0, 60 * Unit, LineLength, 60 * Unit)

ContentItems ==
    {StrokeAt(p) : p \in ContentPoints} \cup {RectAt(p) : p \in ContentPoints}
        \cup {Curve, LongLine}
ContentFills == {[kind |-> "none"], [kind |-> "int", v |-> PackedInt(17, 34, 51)]}
ContentDrawings ==
    {[fill |-> f, items |-> <<item>>] : f \in ContentFills, item \in ContentItems}
\* One drawing more, over the shapes a fill can have: no fill key, a gray or
\* CMYK tuple (not of length 3), a string, an RGB triple, a packed integer.
FillShapes ==
    {[kind |-> "absent"], [kind |-> "other"],
     [kind |-> "str", s |-> <<"#", "F", "F", "0", "0", "0", "0">>],
     [kind |-> "triple", r |-> Unit, g |-> 0, b |-> 0],
     [kind |-> "int", v |-> 255]}
ShapedDrawings ==
    {[fill |-> f, items |-> <<item>>] : f \in FillShapes, item \in ContentItems}

BoxAt(p) == <<p.x - 4, p.y - 4, p.x + 4, p.y + 4>>
Span(text, bbox) == [text |-> text, bbox |-> bbox]
TextBlock(spans) == [type |-> 0, lines |-> <<spans>>]
ImageBlock == [type |-> 1]

SymbolSpans ==
    {Span(t, BoxAt(p)) : t \in {<<"A">>, <<" ", "B">>, <<"A", "B">>},
                         p \in {PIn, PLeft, POut}}
        \cup {Span(<<"A">>, <<>>)}
BlockChoices ==
    {TextBlock(<<sp>>) : sp \in SymbolSpans}
        \cup {ImageBlock,
              TextBlock(<<Span(<<"d", "m">>, BoxAt(POut)),
                          Span(<<"c", " ", "c", "o", "l", "o", "r">>, BoxAt(POut))>>),
              TextBlock(<<Span(<<"C", "o", "l", "o", "u", "r">>, BoxAt(POut))>>),
              TextBlock(<<Span(<<"A", "n", "c", "h", "o", "r", " ", "3">>,
                               BoxAt(POut))>>),
              TextBlock(<<Span(<<"U+989C", "U+8272">>, BoxAt(POut))>>)}

EmptyPageData ==
    [page_number |-> 1, grid |-> NoGrid, stitches |-> <<>>, colors |-> <<>>,
     symbols |-> <<>>, legend |-> <<>>]

InitPage ==
    /\ pc = "page_start"
    /\ \E g \in GridFamilies :
          \/ /\ \E ds \in SeqsUpTo(ContentDrawings, MaxDrawings) : drawings = g \o ds
             /\ text_dict = <<>>
          \/ /\ drawings = g
             /\ text_dict \in SeqsUpTo(BlockChoices, MaxBlocks)
          \/ /\ \E d \in ShapedDrawings : drawings = g \o <<d>>
             /\ text_dict = <<>>
    /\ grid = NoGrid
    /\ first_grid = NoGrid
    /\ page_data = EmptyPageData
    /\ ColorIdle /\ DocIdle

\* grid = self.detect_grid(drawings, page.rect); if grid: page_data["grid"] = grid
PageDetectGrid ==
    /\ pc = "page_start"
    /\ grid' = detect_grid(drawings)
    /\ page_data' = [page_data EXCEPT !.grid = grid']
    /\ pc' = "page_grid"
    /\ UNCHANGED <<color_value, hex_color, rgb, drawings, text_dict,
                   first_grid, doc, result, all_colors, all_symbols>>

\* if grid: page_data["stitches"] = self.extract_stitches(drawings, grid)
PageExtractStitches ==
    /\ pc = "page_grid"
    /\ grid.detected
    /\ page_data' = [page_data EXCEPT !.stitches = extract_stitches(drawings, grid)]
    /\ pc' = "page_stitches"
    /\ UNCHANGED <<color_value, hex_color, rgb, drawings, text_dict, grid,
                   first_grid, doc, result, all_colors, all_symbols>>

\* page_data["legend"] = self.extract_legend(text_data)
PageExtractLegend ==
    /\ pc = "page_stitches" \/ (pc = "page_grid" /\ ~grid.detected)
    /\ page_data' = [page_data EXCEPT !.legend = extract_legend(text_dict)]
    /\ pc' = "page_legend"
    /\ UNCHANGED <<color_value, hex_color, rgb, drawings, text_dict, grid,
                   first_grid, doc, result, all_colors, all_symbols>>

\* page_data["colors"] = self.extract_colors(drawings)
PageExtractColors ==
    /\ pc = "page_legend"
    /\ page_data' = [page_data EXCEPT !.colors = extract_colors(drawings)]
    /\ pc' = "page_colors"
    /\ UNCHANGED <<color_value, hex_color, rgb, drawings, text_dict, grid,
                   first_grid, doc, result, all_colors, all_symbols>>

\* page_data["symbols"] = self.extract_symbols(text_data, grid)
PageExtractSymbols ==
    /\ pc = "page_colors"
    /\ page_data' = [page_data EXCEPT !.symbols = extract_symbols(text_dict, grid)]
    /\ pc' = "page_done"
    /\ UNCHANGED <<color_value, hex_color, rgb, drawings, text_dict, grid,
                   first_grid, doc, result, all_colors, all_symbols>>

NextPage ==
    \/ PageDetectGrid
    \/ PageExtractStitches
    \/ PageExtractLegend
    \/ PageExtractColors
    \/ PageExtractSymbols

SpecPage == InitPage /\ [][NextPage]_vars

(***************************************************************************)
(* Claims on one page.                                                     *)
(***************************************************************************)
\* C1: detect_grid reports a grid if and only if at least 5 horizontal and
\* at least 5 vertical lines survive the length filter; a page without a
\* detected grid ends with no grid, stitches = [] and symbols = [].
C1_GridIffEnoughLines ==
    /\ pc # "page_start" =>
          (grid.detected <=>
              (NumHorizontal(drawings) >= 5 /\ NumVertical(drawings) >= 5))
    /\ (pc = "page_done" /\ ~grid.detected) =>
          /\ page_data.grid = NoGrid
          /\ page_data.stitches = <<>>
          /\ page_data.symbols = <<>>

\* Scenario B: 4 long horizontal lines, and a one-character span to place.
C1_Witness ==
    /\ pc = "page_done"
    /\ NumHorizontal(drawings) = 4 /\ NumVertical(drawings) = 6
    /\ text_dict = <<TextBlock(<<Span(<<"A">>, BoxAt(PIn))>>)>>
    /\ ~grid.detected
    /\ page_data.stitches = <<>> /\ page_data.symbols = <<>>

InGrid(e, g) ==
    0 <= e.row /\ e.row < g.rows /\ 0 <= e.col /\ e.col < g.columns

\* C3: every stitch of extract_stitches has 0 <= row < rows and
\* 0 <= col < columns; a point whose cell is outside gives no stitch.
C3_StitchesInGrid ==
    pc \in {"page_stitches", "page_legend", "page_colors", "page_done"} =>
        \A i \in 1..Len(page_data.stitches) : InGrid(page_data.stitches[i], grid)

NumCandidates(ds) ==
    LET items == AllItems(ds)
    IN  Cardinality({i \in 1..Len(items) : items[i].tag \in {"l", "re"}})

\* A rectangle beside the grid is dropped, one inside is kept.
C3_Witness ==
    /\ pc = "page_done"
    /\ grid.detected
    /\ \E i \in 1..Len(drawings) : drawings[i].items = <<RectAt(POut)>>
    /\ \E i \in 1..Len(drawings) : drawings[i].items = <<RectAt(PIn)>>
    /\ \E i \in 1..Len(page_data.stitches) : page_data.stitches[i].type = "full"
    /\ Len(page_data.stitches) < NumCandidates(drawings)

\* C4: every symbol position extract_symbols records has 0 <= row < rows
\* and 0 <= col < columns; a glyph whose centre is outside the grid is
\* rejected.
C4_SymbolsInGrid ==
    pc = "page_done" =>
        \A i \in 1..Len(page_data.symbols) : InGrid(page_data.symbols[i], grid)

\* floor((coord - origin) / cell)
FloorIndex(coord, origin, cell) == ((coord - origin) * cell.d) \div cell.n

FloorStitchAt(x, y, type, color, g) ==
    LET e == [row |-> FloorIndex(y, g.bounds.top, g.cell_height),
              col |-> FloorIndex(x, g.bounds.left, g.cell_width),
              type |-> type, color |-> color]
    IN  IF InGrid(e, g) THEN <<e>> ELSE <<>>

FloorItemStitches(item, color, g) ==
    IF item.tag = "l"
    THEN FloorStitchAt(item.p1.x, item.p1.y, "cross", color, g)
    ELSE IF item.tag = "re"
    THEN FloorStitchAt((item.rect.x0 + item.rect.x1) \div 2,
                       (item.rect.y0 + item.rect.y1) \div 2, "full", color, g)
    ELSE <<>>

\* The stitches of the drawings when a point is mapped with floor.
FloorStitches(ds, g) ==
    Concat([i \in 1..Len(ds) |->
        Concat([j \in 1..Len(ds[i].items) |->
            FloorItemStitches(ds[i].items[j], parse_color(FillOf(ds[i])), g)])])

\* C5: cell mapping uses floor, so a point left of bounds.left or above
\* bounds.top maps to a negative index and produces no stitch.
C5_FloorMapping ==
    (/\ pc \in {"page_stitches", "page_legend", "page_colors", "page_done"}
     /\ grid.detected
     /\ grid.cell_width.n # 0 /\ grid.cell_height.n # 0)
        => page_data.stitches = FloorStitches(drawings, grid)

\* A text span of one character with a bounding box.
HasSymbolSpan ==
    \E i \in 1..Len(AllSpans(text_dict)) :
        /\ Len(Strip(AllSpans(text_dict)[i].text)) = 1
        /\ AllSpans(text_dict)[i].bbox # <<>>

\* C15: on a detected grid whose cell_width or cell_height is 0,
\* extract_stitches and extract_symbols return empty lists: no division by
\* the cell size takes place and nothing is raised.
C15_ZeroCellGuarded ==
    (/\ grid.detected
     /\ grid.cell_width.n = 0 \/ grid.cell_height.n = 0) =>
        /\ pc = "page_stitches" => page_data.stitches = <<>>
        /\ pc = "page_done" => page_data.symbols = <<>>

\* All vertical lines at one x: cell_width is 0, and the page has a rectangle
\* to map, or a one-character span.
C15_Witness ==
    /\ pc = "page_done"
    /\ grid.detected
    /\ grid.cell_width.n = 0 /\ grid.cell_height.n > 0
    /\ HasSymbolSpan \/ (\E i \in 1..Len(drawings) :
                            \E k \in 1..Len(drawings[i].items) :
                                drawings[i].items[k].tag = "re")
    /\ page_data.stitches = <<>>
    /\ page_data.symbols = <<>>

\* The stitches without their colours, and the drawings without their fills.
Geometry(stitches) ==
    [i \in 1..Len(stitches) |->
        [row |-> stitches[i].row, col |-> stitches[i].col, type |-> stitches[i].type]]
Unfilled(ds) == [i \in 1..Len(ds) |-> [ds[i] EXCEPT !.fill = [kind |-> "absent"]]]
Unresolved(fill) == fill.kind \in {"absent", "none", "other"}

CellStitch(x, y, type) ==
    LET col == CellIndex(x, grid.bounds.left, grid.cell_width)
        row == CellIndex(y, grid.bounds.top, grid.cell_height)
    IN  IF 0 <= col /\ col < grid.columns /\ 0 <= row /\ row < grid.rows
        THEN <<[row |-> row, col |-> col, type |-> type]>>
        ELSE <<>>

\* What the claim expects of one item: a cross at the first endpoint of a
\* line, a full stitch at the centre of a rectangle, nothing of a curve.
ExpectedOfItem(item) ==
    CASE item.tag = "l" -> CellStitch(item.p1.x, item.p1.y, "cross")
      [] item.tag = "re" -> CellStitch((item.rect.x0 + item.rect.x1) \div 2,
                                       (item.rect.y0 + item.rect.y1) \div 2, "full")
      [] OTHER -> <<>>
ExpectedStitches ==
    LET items == AllItems(drawings)
    IN  Concat([i \in 1..Len(items) |-> ExpectedOfItem(items[i])])

\* The 5 x 5 grid of scenario A: cells of 10 from (0, 0).
IsScenarioAGrid ==
    /\ grid.rows = 5 /\ grid.columns = 5
    /\ grid.cell_width = FromTenths(100) /\ grid.cell_height = FromTenths(100)
    /\ grid.bounds.left = 0 /\ grid.bounds.top = 0

\* A rectangle whose centre lies inside cell (2, 3) of that grid.
CentredIn23(item) ==
    /\ item.tag = "re"
    /\ LET cx == (item.rect.x0 + item.rect.x1) \div 2
           cy == (item.rect.y0 + item.rect.y1) \div 2
       IN  /\ 30 * Unit < cx /\ cx < 40 * Unit
           /\ 20 * Unit < cy /\ cy < 30 * Unit

\* C17: the stitches of extract_stitches are, in the order of the drawings and
\* of their items, one cross per line item at the cell of its first endpoint
\* and one full stitch per rectangle item at the cell of its centre, where
\* that cell is in the grid, and nothing for curves; in the grid of scenario A
\* a rectangle centred inside cell (2, 3) gives row 2, col 3, type full.
C17_OneStitchPerItem ==
    (pc = "page_stitches"
        /\ grid.detected /\ grid.cell_width.n # 0 /\ grid.cell_height.n # 0) =>
        /\ Geometry(page_data.stitches) = ExpectedStitches
        /\ Len(page_data.stitches) <=
              Cardinality({i \in 1..Len(AllItems(drawings)) :
                              AllItems(drawings)[i].tag \in {"l", "re"}})
        /\ (IsScenarioAGrid /\ \E i \in 1..Len(AllItems(drawings)) :
                                   CentredIn23(AllItems(drawings)[i]))
              => \E k \in 1..Len(page_data.stitches) :
                    Geometry(page_data.stitches)[k] =
                        [row |-> 2, col |-> 3, type |-> "full"]

\* Scenario E, with a curve beside the rectangle.
C17_Witness ==
    /\ pc = "page_stitches"
    /\ IsScenarioAGrid
    /\ \E i, j \in 1..Len(AllItems(drawings)) :
          /\ CentredIn23(AllItems(drawings)[i])
          /\ AllItems(drawings)[j].tag = "c"
    /\ \E k \in 1..Len(page_data.stitches) :
          Geometry(page_data.stitches)[k] = [row |-> 2, col |-> 3, type |-> "full"]

\* The span texts of a block, one after the other.
BlockText(block) ==
    IF block.type # 0 THEN <<>>
    ELSE Concat([i \in 1..Len(Concat(block.lines)) |-> Concat(block.lines)[i].text])

\* token occurs in text, the case of letters set aside.
HasToken(text, tokens) ==
    \E token \in tokens :
        \E i \in 1..(Len(text) - Len(token) + 1) :
            \A j \in 1..Len(token) :
                Lower(<<text[i + j - 1]>>) = Lower(<<token[j]>>)

\* The tag the claim gives a block: at most one.
ExpectedTag(block) ==
    IF block.type # 0 THEN <<>>
    ELSE IF HasToken(BlockText(block), ThreadKeywords) THEN <<"thread_info">>
    ELSE IF HasToken(BlockText(block), ColorKeywords) THEN <<"color_info">>
    ELSE <<>>

\* C20: extract_legend yields, block after block, at most one entry per text
\* block, decided on the concatenated span texts without regard to case:
\* thread_info where a brand token occurs, also beside a colour token,
\* color_info where only a colour token occurs, nothing for any other block.
C20_LegendTags ==
    pc = "page_legend" =>
        /\ [i \in 1..Len(page_data.legend) |-> page_data.legend[i].type] =
              Concat([b \in 1..Len(text_dict) |-> ExpectedTag(text_dict[b])])
        /\ Len(page_data.legend) <= Len(text_dict)

\* A block whose spans together spell a brand and a colour token, and a block
\* with a colour token alone.
C20_Witness ==
    /\ pc = "page_legend"
    /\ Len(text_dict) = 2
    /\ HasToken(BlockText(text_dict[1]), ThreadKeywords)
    /\ HasToken(BlockText(text_dict[1]), ColorKeywords)
    /\ ~HasToken(BlockText(text_dict[2]), ThreadKeywords)
    /\ HasToken(BlockText(text_dict[2]), ColorKeywords)
    /\ [i \in 1..Len(page_data.legend) |-> page_data.legend[i].type] =
          <<"thread_info", "color_info">>

(***************************************************************************)
(* Spec: parse on a document of up to MaxPages pages, each one of          *)
(* DocPages; pattern_info, the metadata of the document, is copied         *)
(* through and left out.                                                   *)
(***************************************************************************)
Filled(f, item) == [fill |-> f, items |-> <<item>>]
Hex112233 == <<"#", "1", "1", "2", "2", "3", "3">>

DocContents ==
    {<<>>,
     <<Filled([kind |-> "int", v |-> PackedInt(17, 34, 51)], RectAt(PIn))>>,
     <<Filled([kind |-> "str", s |-> <<"#", "F", "F", "0", "0", "0", "0">>],
              StrokeAt(PIn)),
       Filled([kind |-> "str", s |-> Hex112233], RectAt(POut))>>,
     <<Filled([kind |-> "triple", r |-> Unit, g |-> 0, b |-> 0], RectAt(PEdge)),
       Filled([kind |-> "absent"], StrokeAt(PLeft)),
       Filled([kind |-> "str", s |-> <<"#", "F", "F", "0", "0", "0", "0">>],
              Curve)>>}
DocTexts ==
    {<<>>,
     <<TextBlock(<<Span(<<"A">>, BoxAt(PIn))>>)>>,
     <<TextBlock(<<Span(<<"B">>, BoxAt(POut)), Span(<<"A">>, BoxAt(PLeft))>>),
       TextBlock(<<Span(<<"B">>, BoxAt(PIn))>>)>>}
DocGrids ==
    {<<HPath(ScenarioA), VPath(ScenarioA)>>,
     <<HPath(SubSeq(ScenarioA, 1, min_grid_lines - 1)), VPath(ScenarioA)>>}
\* Pages with drawings only, pages with text only, and pages with both.
DocPages ==
    {[drawings |-> g \o c, text_dict |-> <<>>] : g \in DocGrids, c \in DocContents}
    \cup {[drawings |-> g, text_dict |-> t] : g \in DocGrids, t \in DocTexts}
    \cup {[drawings |-> g \o c, text_dict |-> t] :
             g \in DocGrids, c \in DocContents \ {<<>>},
             t \in {s \in DocTexts : Len(s) = 1}}

Init ==
    /\ pc = "parse_loop"
    /\ doc \in SeqsUpTo(DocPages, MaxPages)
    /\ result = [pages |-> <<>>, color_palette |-> <<>>, symbols |-> <<>>,
                 total_pages |-> Len(doc)]
    /\ all_colors = {}
    /\ all_symbols = <<>>
    /\ page_data = NoPageData
    /\ drawings = <<>> /\ text_dict = <<>>
    /\ ColorIdle /\ GridIdle

\* One turn of the loop over the pages of the document.
ParsePage ==
    /\ pc = "parse_loop"
    /\ Len(result.pages) < Len(doc)
    /\ LET page_num == Len(result.pages)
           pd == parse_page(doc[page_num + 1], page_num)
       IN  /\ page_data' = pd
           /\ result' = [result EXCEPT !.pages = Append(@, pd)]
           /\ all_colors' = CollectColors(all_colors, pd)
           /\ all_symbols' = all_symbols \o pd.symbols
    /\ UNCHANGED <<pc, color_value, hex_color, rgb, drawings, text_dict, grid,
                   first_grid, doc>>

\* After the loop: the palette and the symbol registry.
Organize ==
    /\ pc = "parse_loop"
    /\ Len(result.pages) = Len(doc)
    /\ \E colors \in Enumerations(all_colors) :
          result' = [result EXCEPT
                        !.color_palette = organize_color_palette(colors),
                        !.symbols = organize_symbols(all_symbols)]
    /\ pc' = "parse_done"
    /\ UNCHANGED <<color_value, hex_color, rgb, drawings, text_dict, grid,
                   first_grid, page_data, doc, all_colors, all_symbols>>

Next == ParsePage \/ Organize

Spec == Init /\ [][Next]_vars

(***************************************************************************)
(* Claims on the document.                                                 *)
(***************************************************************************)
\* The hex strings of the colors lists of the pages parsed.
PageHexes ==
    UNION {{result.pages[i].colors[j].hex : j \in 1..Len(result.pages[i].colors)} :
              i \in 1..Len(result.pages)}

\* C10: after parse, color_palette has exactly one entry for each distinct
\* hex of the pages' colors lists, and the ids of its n entries are 1..n.
C10_PaletteUnique ==
    pc = "parse_done" =>
        LET palette == result.color_palette
            n == Len(palette)
        IN  /\ {palette[k].hex : k \in 1..n} = PageHexes
            /\ n = Cardinality(PageHexes)
            /\ {palette[k].id : k \in 1..n} = 1..n

\* Scenario D: "#112233" on both pages, once in the palette, among others.
C10_Witness ==
    /\ pc = "parse_done"
    /\ Len(result.pages) = 2
    /\ \A i \in 1..2 :
          \E j \in 1..Len(result.pages[i].colors) :
              result.pages[i].colors[j].hex = Hex112233
    /\ Cardinality({k \in 1..Len(result.color_palette) :
                       result.color_palette[k].hex = Hex112233}) = 1
    /\ Len(result.color_palette) >= 2

\* The hex strings of the pages' colors lists, each at its first occurrence,
\* pages in document order.
RECURSIVE FirstSeen(_, _)
FirstSeen(seen, hexes) ==
    IF hexes = <<>> THEN seen
    ELSE IF Head(hexes) \in Range(seen) THEN FirstSeen(seen, Tail(hexes))
         ELSE FirstSeen(Append(seen, Head(hexes)), Tail(hexes))
FirstSeenHexes ==
    FirstSeen(<<>>, Concat([i \in 1..Len(result.pages) |->
                              [j \in 1..Len(result.pages[i].colors) |->
                                  result.pages[i].colors[j].hex]]))

\* C11: the id of each hex in color_palette is fixed by the page sequence:
\* the k-th entry of the palette, with id k, is the k-th hex in first-seen
\* order across the pages.
C11_FirstSeenIds ==
    pc = "parse_done" =>
        /\ Len(result.color_palette) = Len(FirstSeenHexes)
        /\ \A k \in 1..Len(result.color_palette) :
              /\ result.color_palette[k].id = k
              /\ result.color_palette[k].hex = FirstSeenHexes[k]

\* The symbols lists of the pages, page after page.
PageSymbols == Concat([i \in 1..Len(result.pages) |-> result.pages[i].symbols])

\* The (row, col) pairs of the occurrences of a character, in that order.
RECURSIVE OccurrencesOf(_, _)
OccurrencesOf(symbol, symbols) ==
    IF symbols = <<>> THEN <<>>
    ELSE LET rest == OccurrencesOf(symbol, Tail(symbols))
         IN  IF Head(symbols).symbol = symbol
             THEN <<[row |-> Head(symbols).row, col |-> Head(symbols).col]>> \o rest
             ELSE rest

\* C12: after parse, the symbol registry has exactly one entry for each
\* character of the pages' symbols lists, and the positions of an entry are
\* the (row, col) pairs of the occurrences of its character, page by page in
\* document order, duplicates kept and no page offset added.
C12_SymbolRegistry ==
    pc = "parse_done" =>
        LET registry == result.symbols
            n == Len(registry)
        IN  /\ {registry[k].symbol : k \in 1..n} =
                  {PageSymbols[i].symbol : i \in 1..Len(PageSymbols)}
            /\ \A k, m \in 1..n : registry[k].symbol = registry[m].symbol => k = m
            /\ \A k \in 1..n :
                  registry[k].positions = OccurrencesOf(registry[k].symbol, PageSymbols)

\* A character found in the same cell on both pages: the registry keeps both.
C12_Witness ==
    /\ pc = "parse_done"
    /\ Len(result.pages) = 2
    /\ \E k \in 1..Len(result.symbols) :
          LET positions == result.symbols[k].positions
          IN  /\ Len(positions) >= 2
              /\ \E a, b \in 1..Len(positions) : a # b /\ positions[a] = positions[b]
    /\ Len(result.symbols) >= 2

\* C13: pages holds the results of the pages of the document in document
\* order, the i-th of them numbered i counting from one, and after parse
\* total_pages is the length of pages.
C13_PageOrder ==
    /\ \A i \in 1..Len(result.pages) :
          /\ result.pages[i].page_number = i
          /\ result.pages[i].stitches =
                extract_stitches(doc[i].drawings, detect_grid(doc[i].drawings))
          /\ result.pages[i].symbols =
                extract_symbols(doc[i].text_dict, detect_grid(doc[i].drawings))
          /\ result.pages[i].colors = extract_colors(doc[i].drawings)
    /\ Len(result.pages) <= Len(doc)
    /\ pc = "parse_done" => result.total_pages = Len(result.pages)

\* Two pages with different contents, both parsed.
C13_Witness ==
    /\ pc = "parse_done"
    /\ Len(result.pages) = 2
    /\ doc[1] # doc[2]
    /\ result.pages[1].stitches # result.pages[2].stitches
    /\ result.total_pages = 2

\* The colours the stitches of the pages carry, None left aside.
StitchColors ==
    UNION {{result.pages[i].stitches[k].color : k \in 1..Len(result.pages[i].stitches)} :
              i \in 1..Len(result.pages)} \ {NoneStr}
PaletteHexes ==
    {result.color_palette[k].hex : k \in 1..Len(result.color_palette)}

IsCanonicalHex(s) ==
    /\ Len(s) = 7
    /\ s[1] = "#"
    /\ \A i \in 2..7 : s[i] \in Range(HexDigits)

IsHexLiteral(s) ==
    /\ Len(s) = 7
    /\ s[1] = "#"
    /\ \A i \in 2..7 : IsHexDigit(s[i])

Spelled(s, i) == 16 * HexDigitValue(s[i]) + HexDigitValue(s[i + 1])

\* The channel triple a colour value of one of the three variants encodes.
InVariant(cv) ==
    \/ cv.kind = "int" /\ cv.v >= 0 /\ cv.v <= 16777215
    \/ cv.kind = "triple" /\ \A k \in {cv.r, cv.g, cv.b} : 0 <= k /\ k <= Unit
    \/ cv.kind = "str" /\ IsHexLiteral(cv.s)

Encoded(cv) ==
    IF cv.kind = "int"
    THEN [r |-> cv.v \div 65536, g |-> (cv.v \div 256) % 256, b |-> cv.v % 256]
    ELSE IF cv.kind = "triple"
    THEN [r |-> (255 * cv.r) \div Unit, g |-> (255 * cv.g) \div Unit,
          b |-> (255 * cv.b) \div Unit]
    ELSE [r |-> Spelled(cv.s, 2), g |-> Spelled(cv.s, 4), b |-> Spelled(cv.s, 6)]

\* C7: hex_to_rgb(parse_color(x)) is the channel triple x encodes, for a
\* packed integer in [0, 0xFFFFFF], a triple of channels in [0, 1] and a
\* literal '#rrggbb' string.
C7_RoundTrip ==
    (pc = "color_done" /\ InVariant(color_value)) => rgb = Encoded(color_value)

\* Scenario C: 0xFF0000 -> "#ff0000" -> {r: 255, g: 0, b: 0}.
C7_Witness ==
    /\ pc = "color_done"
    /\ color_value = [kind |-> "int", v |-> PackedInt(255, 0, 0)]
    /\ hex_color = <<"#", "f", "f", "0", "0", "0", "0">>
    /\ rgb = [r |-> 255, g |-> 0, b |-> 0]

\* C8: parse_color returns None or '#' and exactly six lowercase hex digits,
\* and None exactly when the input is absent or of an unrecognized shape.
C8_Canonical ==
    pc \in {"color_parsed", "color_done"} =>
        /\ hex_color = NoneStr \/ IsCanonicalHex(hex_color)
        /\ hex_color = NoneStr <=> color_value.kind \in {"none", "other"}

\* C9: hex_to_rgb returns the zero triple for every string that is not '#'
\* followed by exactly six hex digits.
C9_MalformedIsZero ==
    (pc = "color_done" /\ ~IsHexLiteral(hex_color)) => rgb = ZeroRgb

====
